---- MODULE Spec2Model ----
(***************************************************************************)
(* Worker pool and shared-buffer protocol of fast-jwt (src/src/workers.js).*)
(*                                                                         *)
(* The main thread is a run-to-completion event loop: every exported       *)
(* function, timer callback and 'message' listener is one atomic action.   *)
(* startWorkers blocks the main thread in Atomics.wait, so it is split at  *)
(* the wait and no other main-thread action runs until it returns.  Each   *)
(* worker thread runs handleWorker: boot (install the handler, store the   *)
(* ready flag, notify) and then one atomic step per request message.       *)
(***************************************************************************)
EXTENDS Integers, Sequences, FiniteSets, TLC

\* ------------------------------------------------------------------ bounds
Cores      == 3    \* cpus().length of the machine
MaxOps     == 2    \* sign / verify calls issued in one behaviour
MaxBurst   == 3    \* sign / verify calls issued against a pool that is never stopped
MaxStarts  == 2    \* pools spawned in one behaviour
RegionSize == 20   \* the size argument of startWorkers (bytes per region)
MaxFields   == 3   \* fields of a list handed to writeBuffer on its own
MaxCapacity == 3   \* bytes of a region handed to writeBuffer on its own
MinSlots    == 2   \* entries of the shortest length array handed to writeBuffer

\* --------------------------------------------------------- program constants
SizesLength     == 10   \* 10 * Int32Array.BYTES_PER_ELEMENT
DefaultAttempts == 3    \* getAvailableWorker(callback, attempts = 3)
RequestFields   == 5    \* readBuffer(requestBuffer, requestSizes, 5)
ErrorFields     == 6    \* response === 0 ? 1 : 6

\* ------------------------------------------------------------- JS values
\* A JS value that can be passed as a field: a string or a Buffer (both with
\* their bytes), undefined, or an object (a structured key, which is neither
\* a string nor a Buffer).
Str(b)    == [t |-> "string", b |-> b]
Buf(b)    == [t |-> "buffer", b |-> b]
Obj(b)    == [t |-> "object", b |-> b]
Undefined == [t |-> "undefined", b |-> <<>>]
Null      == [t |-> "null", b |-> <<>>]

IsUndefined(v) == v.t = "undefined"
\* JS truthiness of a value: undefined, null and '' are falsy, a Buffer and
\* an object are truthy
Truthy(v) == \/ v.t \in {"buffer", "object"}
             \/ v.t = "string" /\ v.b # <<>>

\* string literals of the source, as UTF-8 bytes
S_sign   == <<115, 105, 103, 110>>
S_verify == <<118, 101, 114, 105, 102, 121>>
S_true   == <<116, 114, 117, 101>>
S_false  == <<102, 97, 108, 115, 101>>
S_HS512  == <<72, 83, 53, 49, 50>>

Min(a, b) == IF a < b THEN a ELSE b

Zeros(n) == [i \in 1..n |-> 0]

\* ------------------------------------------------------------- framing
\* variant: a copy that reports the bytes asked for, not the bytes copied
BufferCopyUnclamped(buffer, offset, bytes) ==
    [size   |-> Len(bytes),
     buffer |-> [j \in 1..Len(buffer) |->
                    IF j > offset /\ j <= offset + Len(bytes)
                    THEN bytes[j - offset] ELSE buffer[j]]]

\* Buffer.from(element).copy(buffer, offset): copies as many bytes as fit
\* after offset and returns their number
BufferCopy(buffer, offset, bytes) ==
    LET size == IF offset >= Len(buffer) THEN 0
                ELSE Min(Len(bytes), Len(buffer) - offset)
    IN  [size   |-> size,
         buffer |-> [j \in 1..Len(buffer) |->
                        IF j > offset /\ j <= offset + size
                        THEN bytes[j - offset] ELSE buffer[j]]]

\* sizesArray[i] = v on an Int32Array: a write past the end is ignored
SetSize(sizesArray, i, v) ==
    IF i + 1 <= Len(sizesArray) THEN [sizesArray EXCEPT ![i + 1] = v]
    ELSE sizesArray

\* Op(v), with v evaluated once
Bind(v, Op(_)) == CHOOSE r \in {Op(x) : x \in {v}} : TRUE

\* the for loop of writeBuffer, at element i with the bytes before offset written
RECURSIVE WriteLoop(_, _, _, _, _)
WriteLoop(buffer, sizesArray, elements, i, offset) ==
    IF elements = <<>> THEN [buffer |-> buffer, sizes |-> sizesArray]
    ELSE LET element == Head(elements) IN
         IF element.t # "string" /\ element.t # "buffer"
         THEN WriteLoop(buffer, SetSize(sizesArray, i, 0), Tail(elements), i + 1, offset)
         ELSE Bind(BufferCopy(buffer, offset, element.b),
                   LAMBDA c : WriteLoop(c.buffer, SetSize(sizesArray, i, c.size),
                                        Tail(elements), i + 1, offset + c.size))

\* variant: a writeBuffer that writes nothing
writeNothing(buffer, sizesArray, elements) == [buffer |-> buffer, sizes |-> sizesArray]

writeBuffer(buffer, sizesArray, elements) ==
    WriteLoop(buffer, sizesArray, elements, 0, 0)

\* variant: a slice that always starts at the first byte
SliceFromStart(buffer, start, end) ==
    IF end <= start THEN <<>> ELSE SubSeq(buffer, 1, Min(end - start, Len(buffer)))

\* buffer.slice(start, end): clamped to the buffer
Slice(buffer, start, end) ==
    LET s == Min(start, Len(buffer))
        e == Min(end, Len(buffer))
    IN  IF e <= s THEN <<>> ELSE SubSeq(buffer, s + 1, e)

\* sizesArray[i] read past the end of the array is undefined, and a number
\* plus undefined is NaN
NaN == -1
SizeAt(sizesArray, i) == IF i + 1 <= Len(sizesArray) THEN sizesArray[i + 1] ELSE NaN
Plus(a, b) == IF a = NaN \/ b = NaN THEN NaN ELSE a + b

\* the for loop of readBuffer; start !== end is true when end is NaN, and
\* buffer.slice with a NaN bound is empty
RECURSIVE ReadLoop(_, _, _, _, _, _)
ReadLoop(buffer, sizesArray, elementsCount, i, start, elements) ==
    IF i >= elementsCount THEN elements
    ELSE LET end == Plus(start, SizeAt(sizesArray, i))
         IN  ReadLoop(buffer, sizesArray, elementsCount, i + 1, end,
                      Append(elements,
                             IF end = NaN THEN Buf(<<>>)
                             ELSE IF start # end THEN Buf(Slice(buffer, start, end))
                             ELSE Undefined))

readBuffer(buffer, sizesArray, elementsCount) ==
    ReadLoop(buffer, sizesArray, elementsCount, 0, 0, <<>>)

\* ------------------------------------------------------------- errors
\* Stand-ins (one byte each) for the strings of the error module: codes,
\* messages and stack traces.
E_sign    == <<83>>    \* TokenError.codes.signError
E_verify  == <<86>>    \* TokenError.codes.verifyError
E_worker  == <<87>>    \* TokenError.codes.workerError
M_sign    == <<99>>    \* 'Cannot create the signature.'
M_verify  == <<118>>   \* 'Cannot verify the signature.'
M_worker  == <<119>>   \* 'Cannot perform operation using worker.'
M_type    == <<116>>   \* message of a TypeError (property of undefined)
M_key     == <<107>>   \* message of the primitive's key error
T_stack   == <<35>>    \* a stack trace

NoError == [kind |-> "none"]
\* a plain Error (no code unless set)
PlainError(code, message, stack) ==
    [kind |-> "Error", code |-> code, message |-> message, stack |-> stack]
\* new TokenError(code, message, { originalError })
TokenError(code, message, stack, originalError) ==
    [kind |-> "TokenError", code |-> code, message |-> message, stack |-> stack,
     originalError |-> originalError]
TypeError == PlainError(Undefined, Str(M_type), Str(T_stack))

\* TokenError.wrap(originalError, code, message)
TokenErrorWrap(e, code, message) ==
    IF e.kind = "TokenError" THEN e
    ELSE TokenError(Str(code), Str(message), Str(T_stack), e)

\* a || '' on a string-or-undefined value
OrEmpty(v) == IF Truthy(v) THEN v ELSE Str(<<>>)

\* what a function does: returns a value or throws an error
Return(v) == [threw |-> FALSE, value |-> v, error |-> NoError]
Throw(e)  == [threw |-> TRUE, value |-> Undefined, error |-> e]

\* ------------------------------------------------------------- crypto
\* The algorithm adapter (its file is not part of the sources at hand):
\* a deterministic signature of the signing input under the key, the same
\* for a string and for a Buffer with the same bytes; the primitive rejects
\* a malformed key and the adapter wraps that error.
BadKey == <<33>>
True   == [t |-> "boolean", b |-> S_true]
False  == [t |-> "boolean", b |-> S_false]

HasBytes(v)   == v.t \in {"string", "buffer", "object"}
KeyUsable(v)  == HasBytes(v) /\ v.b # <<>> /\ v.b # BadKey
KeyError      == PlainError(Undefined, Str(M_key), Str(T_stack))
Mac(key, msg) == key \o msg

createSignature(algorithm, secret, header, payload) ==
    IF algorithm.b = S_HS512 /\ KeyUsable(secret) /\ HasBytes(header) /\ HasBytes(payload)
    THEN Return(Str(Mac(secret.b, header.b \o payload.b)))
    ELSE Throw(TokenError(Str(E_sign), Str(M_sign), Str(T_stack), KeyError))

verifySignature(algorithm, secret, input, signature) ==
    IF algorithm.b = S_HS512 /\ KeyUsable(secret) /\ HasBytes(input) /\ HasBytes(signature)
    THEN Return(IF signature.b = Mac(secret.b, input.b) THEN True ELSE False)
    ELSE Throw(TokenError(Str(E_verify), Str(M_verify), Str(T_stack), KeyError))

\* value.toString() / value.toString('utf-8') of a string, Buffer or boolean
toString(v) == Str(v.b)

\* deserializeWorkerError(code, message, stack, originalCode, originalMessage,
\* originalStack)
deserializeWorkerError(args) ==
    TokenError(args[1], args[2], args[3], PlainError(args[4], args[5], args[6]))

\* ------------------------------------------------------------- state
VARIABLES
    workers,                \* let workers = []: the Worker objects of the pool
    availableWorkers,       \* the availability queue (a JS array)
    requestsSharedBuffers,  \* per index, the request region now in use
    repliesSharedBuffers,   \* per index, the reply region now in use
    requestsSizesArray,     \* per index, the request length array now in use
    repliesSizesArray,      \* per index, the reply length array now in use
    shared,                 \* the shared memory allocated for each worker
    thread,                 \* each worker thread: position and message ports
    listeners,              \* the 'message' listener of each Worker object
    ops,                    \* the sign / verify calls and their callbacks
    main,                   \* the main thread's position in startWorkers
    lastCall,               \* the last startWorkers / stopWorkers call
    stopped,                \* per pool, the promise and callback of its stopWorkers
    frame                   \* a region and a length array used on their own

poolVars == <<workers, availableWorkers, requestsSharedBuffers, repliesSharedBuffers,
              requestsSizesArray, repliesSizesArray, shared, thread, listeners, ops,
              main, lastCall, stopped>>
vars == <<poolVars, frame>>

Indices   == 0..(Cores - 1)
Gens      == 1..MaxStarts
WorkerIds == [gen : Gens, index : Indices]
OpIds     == 1..(IF MaxBurst > MaxOps THEN MaxBurst ELSE MaxOps)
NoRef     == [gen |-> 0, index |-> 0]
NoWorker  == NoRef

\* an array hole or the result of shift() on an empty array
UndefinedIndex == -1
NullIndex      == -2
\* !worker
Falsy(x) == x = 0 \/ x = UndefinedIndex \/ x = NullIndex

\* the operations a behaviour may issue
Key       == <<107>>
Header    == <<104>>
Payload   == <<112>>
Operation(kind, algorithm, secret, primary, secondary) ==
    [kind |-> kind, algorithm |-> algorithm, secret |-> secret,
     primary |-> primary, secondary |-> secondary]
OpInputs ==
    { Operation("sign", Str(S_HS512), Str(Key), Str(Header), Str(Payload)),
      Operation("sign", Str(S_HS512), Str(BadKey), Str(Header), Str(Payload)),
      Operation("verify", Str(S_HS512), Str(Key), Str(Header \o Payload),
                Str(Mac(Key, Header \o Payload))),
      Operation("verify", Str(S_HS512), Str(Key), Str(Header \o Payload), Str(<<>>)) }
NoInput == Operation("none", Undefined, Undefined, Undefined, Undefined)

NoArgs == [error |-> NoError, value |-> Undefined]
NewOp  == [pc |-> "new", input |-> NoInput, attempts |-> 0, workerIndex |-> UndefinedIndex,
           worker |-> NoWorker, replyBuffer |-> NoRef, callbacks |-> 0, args |-> NoArgs,
           via |-> "none"]

FreshMemory(size) ==
    [request |-> Zeros(size), reply |-> Zeros(size),
     requestSizes |-> Zeros(SizesLength), replySizes |-> Zeros(SizesLength),
     startArray |-> 0]
NoMemory == FreshMemory(0)
NoThread == [pc |-> "none", inbox |-> 0, outbox |-> <<>>]

\* a region of the given capacity with a length array of the given length
NewFrame(capacity, slots) ==
    [capacity |-> capacity, slots |-> slots,
     buffer |-> Zeros(capacity), sizes |-> Zeros(slots), fields |-> <<>>,
     elements |-> <<>>, pc |-> "empty"]
NoFrame == NewFrame(0, 0)

\* a pool that stopWorkers has not been called on
NoStop == [pc |-> "none", callback |-> FALSE, called |-> 0]

PoolInit ==
    /\ workers = <<>>
    /\ availableWorkers = [i \in 1..Cores |-> i - 1]
    /\ requestsSharedBuffers = [i \in Indices |-> NoRef]
    /\ repliesSharedBuffers = [i \in Indices |-> NoRef]
    /\ requestsSizesArray = [i \in Indices |-> NoRef]
    /\ repliesSizesArray = [i \in Indices |-> NoRef]
    /\ shared = [w \in WorkerIds |-> NoMemory]
    /\ thread = [w \in WorkerIds |-> NoThread]
    /\ listeners = [w \in WorkerIds |-> 0]
    /\ ops = [o \in OpIds |-> NewOp]
    /\ main = [pc |-> "idle", i |-> 0, gen |-> 0, size |-> 0]
    /\ lastCall = [name |-> "none", running |-> FALSE, tick |-> 0, callback |-> FALSE]
    /\ stopped = [g \in Gens |-> NoStop]

Init == PoolInit /\ frame = NoFrame

\* ------------------------------------------------------------- lifecycle
Idle    == main.pc = "idle"
Booting == [gen |-> main.gen, index |-> main.i]   \* the worker being spawned

\* a call of an exported lifecycle function, and whether the pool ran then
Called(name) == [name |-> name, running |-> Len(workers) # 0,
                 tick |-> 1 - lastCall.tick, callback |-> FALSE]

\* variant: startWorkers without its guard
StartNeverReturnsEarly == FALSE

\* if (workers.length) return
StartReturnsEarly == Len(workers) # 0

startWorkers(size) ==
    /\ Idle
    /\ StartReturnsEarly \/ main.gen < MaxStarts
    /\ lastCall' = Called("startWorkers")
    /\ IF StartReturnsEarly
       THEN UNCHANGED main
       ELSE main' = [pc |-> "loop", i |-> 0, gen |-> main.gen + 1, size |-> size]
    /\ UNCHANGED <<frame, stopped, workers, availableWorkers, requestsSharedBuffers, repliesSharedBuffers,
                   requestsSizesArray, repliesSizesArray, shared, thread, listeners, ops>>

\* the loop body up to new Worker(...): allocate the regions, spawn the thread
SpawnWorker ==
    /\ main.pc = "loop"
    /\ shared' = [shared EXCEPT ![Booting] = FreshMemory(main.size)]
    /\ requestsSharedBuffers' = [requestsSharedBuffers EXCEPT ![main.i] = Booting]
    /\ repliesSharedBuffers' = [repliesSharedBuffers EXCEPT ![main.i] = Booting]
    /\ requestsSizesArray' = [requestsSizesArray EXCEPT ![main.i] = Booting]
    /\ repliesSizesArray' = [repliesSizesArray EXCEPT ![main.i] = Booting]
    /\ thread' = [thread EXCEPT ![Booting] = [pc |-> "boot", inbox |-> 0, outbox |-> <<>>]]
    /\ listeners' = [listeners EXCEPT ![Booting] = 0]
    /\ main' = [main EXCEPT !.pc = "wait"]
    /\ UNCHANGED <<frame, stopped, workers, availableWorkers, ops, lastCall>>

\* workers.push(worker) and the loop's i++ / i < cores
PushWorker ==
    /\ workers' = Append(workers, Booting)
    /\ main' = [main EXCEPT !.i = @ + 1,
                            !.pc = IF main.i + 1 < Cores THEN "loop" ELSE "idle"]

\* variant: a wait that sleeps whatever the value is
WaitAlwaysBlocks(value) == TRUE

\* Atomics.wait(startArray, 0, 0) sleeps only while the value is still 0
WaitBlocks(value) == value = 0

AtomicsWait ==
    /\ main.pc = "wait"
    /\ IF WaitBlocks(shared[Booting].startArray)
       THEN /\ main' = [main EXCEPT !.pc = "blocked"]
            /\ UNCHANGED workers
       ELSE PushWorker
    /\ UNCHANGED <<frame, stopped, availableWorkers, requestsSharedBuffers, repliesSharedBuffers,
                   requestsSizesArray, repliesSizesArray, shared, thread, listeners, ops,
                   lastCall>>

\* the sleeping main thread, once notified, returns from Atomics.wait
AtomicsWaitReturn ==
    /\ main.pc = "woken"
    /\ PushWorker
    /\ UNCHANGED <<frame, stopped, availableWorkers, requestsSharedBuffers, repliesSharedBuffers,
                   requestsSizesArray, repliesSizesArray, shared, thread, listeners, ops,
                   lastCall>>

\* handleWorker in the new thread: parentPort.on('message', ...)
InstallHandler(w) ==
    /\ thread[w].pc = "boot"
    /\ thread' = [thread EXCEPT ![w].pc = "installed"]
    /\ UNCHANGED <<frame, stopped, workers, availableWorkers, requestsSharedBuffers, repliesSharedBuffers,
                   requestsSizesArray, repliesSizesArray, shared, listeners, ops, main,
                   lastCall>>

\* Atomics.store(startArray, 0, 1)
AtomicsStore(w) ==
    /\ thread[w].pc = "installed"
    /\ thread' = [thread EXCEPT ![w].pc = "stored"]
    /\ shared' = [shared EXCEPT ![w].startArray = 1]
    /\ UNCHANGED <<frame, stopped, workers, availableWorkers, requestsSharedBuffers, repliesSharedBuffers,
                   requestsSizesArray, repliesSizesArray, listeners, ops, main,
                   lastCall>>

\* Atomics.notify(startArray, 0): wakes the main thread if it sleeps on it
AtomicsNotify(w) ==
    /\ thread[w].pc = "stored"
    /\ thread' = [thread EXCEPT ![w].pc = "running"]
    /\ main' = IF main.pc = "blocked" /\ Booting = w
               THEN [main EXCEPT !.pc = "woken"] ELSE main
    /\ UNCHANGED <<frame, stopped, workers, availableWorkers, requestsSharedBuffers, repliesSharedBuffers,
                   requestsSizesArray, repliesSizesArray, shared, listeners, ops,
                   lastCall>>

InPool(w) == \E j \in 1..Len(workers) : workers[j] = w

\* if (!workers.length) return
StopReturnsEarly == Len(workers) = 0

\* variant: a stop that resets the queue before it looks at the pool
stopWorkersClearing(callback) ==
    /\ Idle
    /\ lastCall' = [Called("stopWorkers") EXCEPT !.callback = callback]
    /\ availableWorkers' = <<>>
    /\ thread' = [w \in WorkerIds |->
                    IF InPool(w) THEN [thread[w] EXCEPT !.pc = "terminated"]
                    ELSE thread[w]]
    /\ workers' = <<>>
    /\ UNCHANGED <<frame, stopped, requestsSharedBuffers, repliesSharedBuffers,
                   requestsSizesArray, repliesSizesArray, shared, listeners, ops, main>>

\* variant: a stop that terminates the workers and keeps the workers array
stopWorkersKeeping(callback) ==
    /\ Idle
    /\ lastCall' = [Called("stopWorkers") EXCEPT !.callback = callback]
    /\ IF StopReturnsEarly
       THEN UNCHANGED <<thread, stopped>>
       ELSE /\ thread' = [w \in WorkerIds |->
                            IF InPool(w) THEN [thread[w] EXCEPT !.pc = "terminated"]
                            ELSE thread[w]]
            /\ stopped' = [stopped EXCEPT ![main.gen] =
                              [pc |-> "terminating", callback |-> callback, called |-> 0]]
    /\ UNCHANGED <<frame, workers, availableWorkers, requestsSharedBuffers,
                   repliesSharedBuffers, requestsSizesArray, repliesSizesArray, shared,
                   listeners, ops, main>>

\* stopWorkers(callback), callback being a function or not:
\* promise = Promise.all(workers.map(w => w.terminate())); workers = [];
\* the promise is given the callback, or returned
stopWorkers(callback) ==
    /\ Idle
    /\ lastCall' = [Called("stopWorkers") EXCEPT !.callback = callback]
    /\ IF StopReturnsEarly
       THEN UNCHANGED <<workers, thread, stopped>>
       ELSE /\ thread' = [w \in WorkerIds |->
                            IF InPool(w) THEN [thread[w] EXCEPT !.pc = "terminated"]
                            ELSE thread[w]]
            /\ workers' = <<>>
            /\ stopped' = [stopped EXCEPT ![main.gen] =
                              [pc |-> "terminating", callback |-> callback, called |-> 0]]
    /\ UNCHANGED <<frame, availableWorkers, requestsSharedBuffers, repliesSharedBuffers,
                   requestsSizesArray, repliesSizesArray, shared, listeners, ops, main>>

\* every worker of pool g has exited: the promise of its stopWorkers settles
\* and promise.then(() => callback(), callback) calls the callback
PromiseSettles(g) ==
    /\ Idle
    /\ stopped[g].pc = "terminating"
    /\ stopped' = [stopped EXCEPT ![g].pc = "settled",
                                  ![g].called = IF stopped[g].callback THEN @ + 1 ELSE @]
    /\ UNCHANGED <<frame, workers, availableWorkers, requestsSharedBuffers,
                   repliesSharedBuffers, requestsSizesArray, repliesSizesArray, shared,
                   thread, listeners, ops, main, lastCall>>

\* ------------------------------------------------------------- acquisition
\* availableWorkers.shift()
Shift(array) ==
    IF array = <<>> THEN [value |-> UndefinedIndex, rest |-> <<>>]
    ELSE [value |-> Head(array), rest |-> Tail(array)]

\* array[index] = value on a JS array: past the end it leaves holes
ArraySet(array, index, value) ==
    [j \in 1..(IF index + 1 > Len(array) THEN index + 1 ELSE Len(array)) |->
        IF j = index + 1 THEN value
        ELSE IF j <= Len(array) THEN array[j] ELSE UndefinedIndex]

\* variant: getAvailableWorker without the test of workers.length
getAvailableWorkerUnguarded(attempts) ==
    LET s == Shift(availableWorkers) IN
    [timer  |-> Falsy(s.value) /\ attempts > 0 /\ Len(workers) # 0,
     worker |-> s.value,
     queue  |-> s.rest]

\* variant: getAvailableWorker that retries whatever attempts is
getAvailableWorkerUnbounded(attempts) ==
    IF Len(workers) = 0
    THEN [timer |-> FALSE, worker |-> NullIndex, queue |-> availableWorkers]
    ELSE LET s == Shift(availableWorkers) IN
         [timer  |-> Falsy(s.value) /\ Len(workers) # 0,
          worker |-> s.value,
          queue  |-> s.rest]

\* getAvailableWorker(callback, attempts): either a timer is set for the next
\* attempt or the callback is called with worker
getAvailableWorker(attempts) ==
    IF Len(workers) = 0
    THEN [timer |-> FALSE, worker |-> NullIndex, queue |-> availableWorkers]
    ELSE LET s == Shift(availableWorkers) IN
         [timer  |-> Falsy(s.value) /\ attempts > 0 /\ Len(workers) # 0,
          worker |-> s.value,
          queue  |-> s.rest]

\* variant: the retry passes attempts on without counting it down
NextAttemptsSame(attempts) == attempts

\* getAvailableWorker(callback, attempts - 1)
NextAttempts(attempts) == attempts - 1

\* the synchronous path: try { callback(null, f(...)) } catch (e) { callback(e) }
InProcess(input) ==
    IF input.kind = "sign"
    THEN createSignature(input.algorithm, input.secret, input.primary, input.secondary)
    ELSE verifySignature(input.algorithm, input.secret, input.primary, input.secondary)

CallbackArgs(r) ==
    IF r.threw THEN [error |-> r.error, value |-> Undefined]
    ELSE [error |-> NoError, value |-> r.value]

Fallback(o, input) ==
    /\ ops' = [ops EXCEPT ![o] = [@ EXCEPT !.pc = "done", !.input = input,
                                            !.attempts = 0,
                                            !.callbacks = @ + 1,
                                            !.args = CallbackArgs(InProcess(input)),
                                            !.via = "sync"]]
    /\ UNCHANGED <<shared, listeners, thread>>

\* the request fields of the two operations
RequestElements(input) ==
    <<Str(IF input.kind = "sign" THEN S_sign ELSE S_verify),
      input.algorithm, input.secret, input.primary, input.secondary>>

\* lines 199-225 / 242-268: frame the request, install the listener, notify.
\* Without a region or a Worker object at workerIndex, Buffer.from(undefined)
\* or worker.removeAllListeners throws out of the call.
Offload(o, input, workerIndex) ==
    IF workerIndex + 1 > Len(workers) \/ requestsSharedBuffers[workerIndex] = NoRef
    THEN /\ ops' = [ops EXCEPT ![o] = [@ EXCEPT !.pc = "threw", !.input = input,
                                                 !.attempts = 0]]
         /\ UNCHANGED <<shared, listeners, thread>>
    ELSE
    LET worker  == workers[workerIndex + 1]
        reqRef  == requestsSharedBuffers[workerIndex]
        sizeRef == requestsSizesArray[workerIndex]
    IN  \E w \in {writeBuffer(shared[reqRef].request, shared[sizeRef].requestSizes,
                              RequestElements(input))} :
        /\ shared' = [shared EXCEPT ![reqRef].request = w.buffer,
                                    ![sizeRef].requestSizes = w.sizes]
        /\ listeners' = [listeners EXCEPT ![worker] = o]
        /\ thread' = [thread EXCEPT ![worker].inbox = @ + 1]
        /\ ops' = [ops EXCEPT ![o] = [@ EXCEPT !.pc = "sent", !.input = input,
                                                !.attempts = 0,
                                                !.workerIndex = workerIndex,
                                                !.worker = worker,
                                                !.replyBuffer = repliesSharedBuffers[workerIndex],
                                                !.via = "worker"]]

\* one attempt of an operation: getAvailableWorker and what its callback does
Attempt(o, input, attempts) ==
    \E g \in {getAvailableWorker(attempts)} :
    /\ availableWorkers' = g.queue
    /\ IF g.timer
       THEN /\ ops' = [ops EXCEPT ![o] = [@ EXCEPT !.pc = "timer", !.input = input,
                                                    !.attempts = NextAttempts(attempts)]]
            /\ UNCHANGED <<shared, listeners, thread>>
       ELSE IF Falsy(g.worker)
       THEN Fallback(o, input)
       ELSE Offload(o, input, g.worker)
    /\ UNCHANGED <<frame, stopped, workers, requestsSharedBuffers, repliesSharedBuffers,
                   requestsSizesArray, repliesSizesArray, main, lastCall>>

NextOp(o) == ops[o].pc = "new" /\ \A p \in OpIds : p < o => ops[p].pc # "new"

createSignatureWithWorker(o, input) ==
    /\ Idle
    /\ NextOp(o)
    /\ input.kind = "sign"
    /\ Attempt(o, input, DefaultAttempts)

verifySignatureWithWorker(o, input) ==
    /\ Idle
    /\ NextOp(o)
    /\ input.kind = "verify"
    /\ Attempt(o, input, DefaultAttempts)

\* the setTimeout callback: () => getAvailableWorker(callback, attempts - 1)
RetryTimer(o) ==
    /\ Idle
    /\ ops[o].pc = "timer"
    /\ Attempt(o, ops[o].input, ops[o].attempts)

\* ------------------------------------------------------------- worker thread
\* the try block of the worker's message handler, up to rv
PerformRequest(f) ==
    LET operation == f[1]
        algorithm == f[2]
        secret    == f[3]
        headerOrInput      == f[4]
        payloadOrSignature == f[5]
    IN  IF IsUndefined(operation) THEN Throw(TypeError)
        ELSE IF toString(operation).b = S_sign
        THEN IF IsUndefined(algorithm) THEN Throw(TypeError)
             ELSE createSignature(toString(algorithm), secret, headerOrInput,
                                  payloadOrSignature)
        ELSE IF IsUndefined(algorithm) \/ IsUndefined(payloadOrSignature)
             THEN Throw(TypeError)
             ELSE verifySignature(toString(algorithm), secret, headerOrInput,
                                  toString(payloadOrSignature))

\* variant: a worker that posts status 0 whatever happened
WorkerReplyAlwaysZero(f) ==
    Bind(PerformRequest(f), LAMBDA r :
    IF ~r.threw
    THEN [status |-> 0, elements |-> <<toString(r.value)>>]
    ELSE [status   |-> 0,
          elements |-> <<Str(E_worker), Str(M_worker), Str(T_stack),
                         Str(<<>>), Str(M_type), Str(T_stack)>>])

\* the reply of the worker: the fields it frames and the status it posts
WorkerReply(f) ==
    Bind(PerformRequest(f), LAMBDA r :
    IF ~r.threw
    THEN [status |-> 0, elements |-> <<toString(r.value)>>]
    ELSE LET error == TokenErrorWrap(r.error, E_worker, M_worker) IN
         [status   |-> -1,
          elements |-> <<error.code, error.message, error.stack,
                         OrEmpty(error.originalError.code),
                         error.originalError.message,
                         error.originalError.stack>>])

\* parentPort.on('message', request => ...) in worker w
WorkerMessage(w) ==
    /\ thread[w].pc = "running"
    /\ thread[w].inbox > 0
    /\ \E f \in {readBuffer(shared[w].request, shared[w].requestSizes, RequestFields)} :
       \E reply \in {WorkerReply(f)} :
       \E wr \in {writeBuffer(shared[w].reply, shared[w].replySizes, reply.elements)} :
           /\ shared' = [shared EXCEPT ![w].reply = wr.buffer, ![w].replySizes = wr.sizes]
           /\ thread' = [thread EXCEPT ![w].inbox = @ - 1,
                                       ![w].outbox = Append(@, reply.status)]
    /\ UNCHANGED <<frame, stopped, workers, availableWorkers, requestsSharedBuffers, repliesSharedBuffers,
                   requestsSizesArray, repliesSizesArray, listeners, ops, main,
                   lastCall>>

\* ------------------------------------------------------------- reply handler
\* "Make the worker available again"
ReleaseSign(queue, workerIndex)   == Append(queue, workerIndex)
ReleaseVerify(queue, workerIndex) == ArraySet(queue, workerIndex, 0)

\* data.map(d => (d ? d.toString('utf-8') : null))
ErrorStrings(data) ==
    [j \in 1..Len(data) |-> IF Truthy(data[j]) THEN toString(data[j]) ELSE Null]

\* what the listener of operation o does with the data it unframed:
\* the arguments it calls back with, or an exception out of the listener
HandlerResult(kind, response, data) ==
    IF response < 0
    THEN [threw |-> FALSE,
          args  |-> [error |-> deserializeWorkerError(ErrorStrings(data)),
                     value |-> Undefined]]
    ELSE IF IsUndefined(data[1])
    THEN [threw |-> TRUE, args |-> NoArgs]
    ELSE [threw |-> FALSE,
          args  |-> [error |-> NoError,
                     value |-> IF kind = "sign" THEN toString(data[1])
                               ELSE IF toString(data[1]).b = S_true THEN True
                               ELSE False]]

\* worker.on('message', response => ...) of operation o, run with response
ReplyHandler(o, response) ==
    LET workerIndex == ops[o].workerIndex
        kind == ops[o].input.kind
    IN  \E data \in {readBuffer(shared[ops[o].replyBuffer].reply,
                                shared[repliesSizesArray[workerIndex]].replySizes,
                                IF response = 0 THEN 1 ELSE ErrorFields)} :
        \E h \in {HandlerResult(kind, response, data)} :
        /\ availableWorkers' = IF kind = "sign"
                               THEN ReleaseSign(availableWorkers, workerIndex)
                               ELSE ReleaseVerify(availableWorkers, workerIndex)
        /\ ops' = [ops EXCEPT ![o] =
                      IF h.threw THEN [@ EXCEPT !.pc = "threw"]
                      ELSE [@ EXCEPT !.pc = "done", !.callbacks = @ + 1,
                                     !.args = h.args]]

\* the main thread receives a message posted by worker w
ParentMessage(w) ==
    /\ Idle
    /\ thread[w].outbox # <<>>
    /\ thread' = [thread EXCEPT ![w].outbox = Tail(@)]
    /\ IF listeners[w] = 0
       THEN UNCHANGED <<availableWorkers, ops>>
       ELSE ReplyHandler(listeners[w], Head(thread[w].outbox))
    /\ UNCHANGED <<frame, stopped, workers, requestsSharedBuffers, repliesSharedBuffers,
                   requestsSizesArray, repliesSizesArray, shared, listeners, main,
                   lastCall>>

\* ------------------------------------------------------------- specification
\* what the threads and the event loop do by themselves
Progress ==
    \/ SpawnWorker
    \/ AtomicsWait
    \/ AtomicsWaitReturn
    \/ \E w \in WorkerIds : InstallHandler(w)
    \/ \E w \in WorkerIds : AtomicsStore(w)
    \/ \E w \in WorkerIds : AtomicsNotify(w)
    \/ \E o \in OpIds : RetryTimer(o)
    \/ \E w \in WorkerIds : WorkerMessage(w)
    \/ \E w \in WorkerIds : ParentMessage(w)

Next ==
    \/ startWorkers(RegionSize)
    \/ stopWorkers(FALSE)
    \/ \E g \in Gens : PromiseSettles(g)
    \/ \E o \in 1..MaxOps, input \in OpInputs : createSignatureWithWorker(o, input)
    \/ \E o \in 1..MaxOps, input \in OpInputs : verifySignatureWithWorker(o, input)
    \/ Progress

Spec == Init /\ [][Next]_vars

\* The same with stopWorkers also called with a callback.
StopNext ==
    \/ Next
    \/ stopWorkers(TRUE)

StopSpec == Init /\ [][StopNext]_vars

\* A pool that is started and never stopped, under a burst of valid calls
\* issued once it runs.  Timers fire, running threads handle their messages
\* and the event loop delivers the messages posted to it.
BurstInputs == {input \in OpInputs : ~InProcess(input).threw /\ Truthy(input.secondary)}

BurstNext ==
    \/ startWorkers(RegionSize)
    \/ \E o \in 1..MaxBurst, input \in BurstInputs :
          Len(workers) # 0 /\ createSignatureWithWorker(o, input)
    \/ \E o \in 1..MaxBurst, input \in BurstInputs :
          Len(workers) # 0 /\ verifySignatureWithWorker(o, input)
    \/ Progress

BurstSpec == Init /\ [][BurstNext]_vars /\ WF_vars(Progress)

\* The burst of valid calls against a pool that is also stopped and started
\* again while calls are in flight or wait for their retry timer (the
\* promise stopWorkers returns is dropped).
RetryNext ==
    \/ BurstNext
    \/ stopWorkers(FALSE)

RetrySpec == Init /\ [][RetryNext]_vars

\* writeBuffer and readBuffer called on their own (both are exported), on a
\* region and an Int32Array length array that are used again and again:
\* a list is written, read back, and the next list is written over it
FieldValues == {Str(<<>>), Str(<<1>>), Buf(<<2, 3>>), Undefined, Null}
FieldLists  == UNION {[1..n -> FieldValues] : n \in 0..MaxFields}

FrameInit ==
    /\ PoolInit
    /\ \E capacity \in 0..MaxCapacity, slots \in MinSlots..MaxFields :
          frame = NewFrame(capacity, slots)

FrameWrite ==
    /\ frame.pc # "written"
    /\ \E fields \in FieldLists :
       \E w \in {writeBuffer(frame.buffer, frame.sizes, fields)} :
          frame' = [frame EXCEPT !.buffer = w.buffer, !.sizes = w.sizes,
                                 !.fields = fields, !.elements = <<>>,
                                 !.pc = "written"]
    /\ UNCHANGED poolVars

FrameRead ==
    /\ frame.pc = "written"
    /\ frame' = [frame EXCEPT !.elements = readBuffer(frame.buffer, frame.sizes,
                                                      Len(frame.fields)),
                              !.pc = "read"]
    /\ UNCHANGED poolVars

FrameNext == FrameWrite \/ FrameRead

FrameSpec == FrameInit /\ [][FrameNext]_vars

\* ------------------------------------------------------------- claims
\* operation o holds worker index k: acquired, its reply not handled yet
InFlight(o, k) == ops[o].pc = "sent" /\ ops[o].workerIndex = k
\* how often the array holds x
Count(array, x) == Cardinality({j \in 1..Len(array) : array[j] = x})
\* the step is an acquisition attempt of operation o (its call or its timer)
AttemptStep(o) == ops[o].pc \in {"new", "timer"} /\ ops'[o] # ops[o]
\* the step runs the reply handler of operation o
ReplyStep(o) == ops[o].pc = "sent" /\ ops'[o].pc \in {"done", "threw"}

\* C1: every worker index has at most one operation in flight; the
\* availability queue never holds the index of a slot that is in flight and
\* never holds the same index twice.
C1_SingleOwnerPerSlot ==
    /\ \A k \in Indices : Cardinality({o \in OpIds : InFlight(o, k)}) <= 1
    /\ \A k \in Indices : (\E o \in OpIds : InFlight(o, k)) => Count(availableWorkers, k) = 0
    /\ \A k \in Indices : Count(availableWorkers, k) <= 1

\* C2: once the reply handler of a sign or of a verify operation served by
\* worker index k has run, k is in the availability queue exactly once.
C2_ReleaseAfterReply ==
    [][\A o \in OpIds : ReplyStep(o) => Count(availableWorkers', ops[o].workerIndex) = 1]_vars

\* C3: when the pool runs and the availability queue starts with an index
\* (any of 0..cores-1), an acquisition attempt hands that index to the
\* operation and offloads it: no retry, no fallback, the index is not dropped.
C3_AcquiresAnyIndex ==
    [][\A o \in OpIds :
          ( /\ AttemptStep(o)
            /\ Len(workers) # 0
            /\ availableWorkers # <<>>
            /\ Head(availableWorkers) \in Indices )
          => /\ ops'[o].pc = "sent"
             /\ ops'[o].workerIndex = Head(availableWorkers)]_vars

\* what a callback can observe of its arguments: the value, or the code and
\* the message of the error
ErrorOf(args) == IF args.error.kind = "none" THEN <<>>
                 ELSE <<args.error.code, args.error.message>>
Outcome(args) == <<args.value, ErrorOf(args)>>

\* C4: against a pool that is never stopped, whose threads keep replying,
\* every issued operation (more of them than there are workers) eventually
\* has its callback invoked, exactly once; no listener throws, and an
\* operation that fell back is called back with the in-process outcome.
C4_EveryCallResolves ==
    /\ [](\A o \in OpIds :
            /\ ops[o].callbacks <= 1
            /\ ops[o].pc # "threw"
            /\ ops[o].pc = "done" =>
                 /\ ops[o].callbacks = 1
                 /\ ops[o].via = "sync" =>
                      ops[o].args = CallbackArgs(InProcess(ops[o].input)))
    /\ \A o \in OpIds : (ops[o].pc # "new") ~> (ops[o].pc = "done")

\* the pool is saturated (every worker the queue hands out is busy) and one
\* more operation has resolved by falling back
C4_Witness ==
    /\ Len(workers) # 0
    /\ Cardinality({p \in OpIds : ops[p].pc = "sent"}) = Cores - 1
    /\ \E o \in OpIds : ops[o].pc = "done" /\ ops[o].via = "sync" /\ ops[o].callbacks = 1

\* the step is the call of operation o
CallStep(o) == ops[o].pc = "new" /\ ops'[o].pc # "new"

\* C5: a sign or verify call made while the pool is not running (never
\* started, or stopped) calls back before it returns, once, with the
\* in-process result or the in-process exception, and touches neither the
\* availability queue nor a shared region, a worker or a listener.
C5_FallbackWhenNotRunning ==
    [][\A o \in OpIds :
          (CallStep(o) /\ Len(workers) = 0)
          => /\ ops'[o].pc = "done"
             /\ ops'[o].callbacks = 1
             /\ ops'[o].via = "sync"
             /\ ops'[o].args = CallbackArgs(InProcess(ops'[o].input))
             /\ UNCHANGED <<workers, availableWorkers, shared, thread, listeners>>]_vars

\* a call made after the pool was stopped has called back with the
\* in-process exception
C5_Witness ==
    /\ lastCall.name = "stopWorkers"
    /\ Len(workers) = 0
    /\ ops[1].pc = "done" /\ ops[1].via = "worker"
    /\ ops[2].pc = "done" /\ ops[2].via = "sync" /\ ops[2].args.error.kind # "none"

\* the handler of w is installed / its ready flag is set
HandlerInstalled(w) == thread[w].pc \in {"installed", "stored", "running", "terminated"}
FlagSet(w)          == shared[w].startArray = 1

\* C6: a worker is in the pool (startWorkers went past its wait) only with
\* its handler installed and its ready flag set; a request is posted to a
\* worker only with its handler installed; the spawner sleeps only while the
\* notify of the worker it waits for is still to come, and every started
\* startWorkers returns with cores workers in the pool.
C6_ReadyHandshake ==
    /\ [](\A w \in WorkerIds :
            /\ InPool(w) => HandlerInstalled(w) /\ FlagSet(w)
            /\ thread[w].inbox > 0 => HandlerInstalled(w))
    /\ [](main.pc = "blocked" => thread[Booting].pc \in {"boot", "installed", "stored"})
    /\ (main.pc # "idle") ~> (main.pc = "idle" /\ Len(workers) = Cores)

\* the worker has set its flag and notified before the spawner starts to wait
C6_Witness == main.pc = "wait" /\ thread[Booting].pc = "running"

\* the step is a call of the exported function name
LifecycleCall(name) == lastCall' # lastCall /\ lastCall'.name = name

\* C7: stopWorkers on a running pool terminates every worker thread of the
\* pool, leaves the worker list empty and leaves the availability queue empty.
C7_StopClearsPool ==
    [][(LifecycleCall("stopWorkers") /\ Len(workers) # 0)
       => /\ \A w \in WorkerIds : InPool(w) => thread'[w].pc = "terminated"
          /\ workers' = <<>>
          /\ availableWorkers' = <<>>]_vars

\* C8: startWorkers called while the pool runs spawns nothing, allocates
\* nothing and changes neither the worker list, the regions, the length
\* arrays nor the availability queue; whenever a startWorkers call has
\* returned, the pool holds exactly cores workers.
C8_StartIdempotent ==
    [][/\ (LifecycleCall("startWorkers") /\ Len(workers) # 0)
          => UNCHANGED <<workers, availableWorkers, requestsSharedBuffers,
                         repliesSharedBuffers, requestsSizesArray, repliesSizesArray,
                         shared, thread, listeners, main>>
       /\ (main'.pc = "idle" /\ lastCall'.name = "startWorkers")
          => Len(workers') = Cores]_vars

\* startWorkers has been called on a running pool
C8_Witness ==
    /\ lastCall.name = "startWorkers" /\ lastCall.running
    /\ Idle /\ Len(workers) = Cores

\* C9: stopWorkers called while the pool is stopped (never started, or
\* stopped before) terminates nothing and changes neither the worker list
\* nor the availability queue.
C9_StopIdempotent ==
    [][(LifecycleCall("stopWorkers") /\ Len(workers) = 0)
       => UNCHANGED <<workers, availableWorkers, thread, shared, listeners>>]_vars

\* stopWorkers has been called on a pool that was started and stopped before
C9_Witness ==
    /\ lastCall.name = "stopWorkers" /\ ~lastCall.running
    /\ main.gen > 0 /\ Len(workers) = 0

\* C10: an operation resolved through a worker is called back with the
\* outcome (value, or error code and message) of the same operation run
\* in-process.
C10_OffloadEqualsInProcess ==
    \A o \in OpIds :
        (ops[o].pc = "done" /\ ops[o].via = "worker")
        => Outcome(ops[o].args) = Outcome(CallbackArgs(InProcess(ops[o].input)))

\* the step delivers a message of worker w to the listener installed on it
DeliveryStep(w) ==
    /\ thread[w].outbox # <<>>
    /\ thread'[w].outbox = Tail(thread[w].outbox)
    /\ listeners[w] # 0
\* the step is worker w handling a request
RequestStep(w) == thread[w].inbox > 0 /\ thread'[w].inbox = thread[w].inbox - 1
\* the fields now framed in the reply region of worker w, as strings
Framed(w, n) == ErrorStrings(readBuffer(shared[w].reply, shared[w].replySizes, n))
FramedAfter(w, n) == ErrorStrings(readBuffer(shared'[w].reply, shared'[w].replySizes, n))
\* the string a field is read back as: an empty field is read back as null
AsFramed(v) == IF Truthy(v) THEN toString(v) ELSE Null

\* C11: when the operation throws inside a worker, the worker frames the
\* code, message and stack of the error and of its original error and posts
\* a negative status; the listener that receives a negative status calls
\* back with an error, never a result, whose code and message, and whose
\* original error's code and message, are the framed ones.
C11_ErrorPropagation ==
    [][\A w \in WorkerIds :
          /\ RequestStep(w) =>
               LET r == PerformRequest(readBuffer(shared[w].request,
                                                  shared[w].requestSizes, RequestFields))
                   e == TokenErrorWrap(r.error, E_worker, M_worker)
               IN  r.threw =>
                     /\ thread'[w].outbox = Append(thread[w].outbox, -1)
                     /\ FramedAfter(w, ErrorFields) =
                          <<AsFramed(e.code), AsFramed(e.message), AsFramed(e.stack),
                            AsFramed(e.originalError.code),
                            AsFramed(e.originalError.message),
                            AsFramed(e.originalError.stack)>>
          /\ (DeliveryStep(w) /\ Head(thread[w].outbox) < 0) =>
               LET o == listeners[w]
                   f == Framed(w, ErrorFields)
               IN  /\ ops'[o].pc = "done"
                   /\ ops'[o].callbacks = ops[o].callbacks + 1
                   /\ ops'[o].args.value = Undefined
                   /\ ops'[o].args.error.kind = "TokenError"
                   /\ ops'[o].args.error.code = f[1]
                   /\ ops'[o].args.error.message = f[2]
                   /\ ops'[o].args.error.originalError.code = f[4]
                   /\ ops'[o].args.error.originalError.message = f[5]]_vars

\* the bytes a field asks to be written: those of a string or of a Buffer
Serializable(field) == field.t \in {"string", "buffer"}
ByteLength(field) == IF Serializable(field) THEN Len(field.b) ELSE 0
RECURSIVE TotalLength(_)
TotalLength(fields) ==
    IF fields = <<>> THEN 0 ELSE ByteLength(Head(fields)) + TotalLength(Tail(fields))
\* the fields written last fit the region
Fits == TotalLength(frame.fields) <= Len(frame.buffer)
\* position j is read back as it was written
ReadBack(j) ==
    /\ (Serializable(frame.fields[j]) /\ frame.fields[j].b # <<>>)
          => frame.elements[j] = Buf(frame.fields[j].b)
    /\ ~Serializable(frame.fields[j]) => frame.elements[j] = Undefined

C20_WriteStaysInRegion ==
    frame.pc = "written" =>
        LET fields     == frame.fields
            capacity   == frame.capacity
            Written(j) == Min(capacity, TotalLength(SubSeq(fields, 1, j)))
            Copied(j)  == Written(j) - Written(j - 1)
            Recorded   == 1..Min(Len(fields), frame.slots)
        IN  /\ Len(frame.buffer) = capacity
            /\ Len(frame.sizes) = frame.slots
            /\ \A j \in Recorded : frame.sizes[j] = Copied(j)
            /\ \A j \in 1..Len(fields) : \A k \in 1..Copied(j) :
                  frame.buffer[Written(j - 1) + k] = fields[j].b[k]
            /\ TotalLength([j \in Recorded |-> Buf(Zeros(frame.sizes[j]))]) <= capacity
            /\ \A j \in Recorded :
                  frame.sizes[j] < ByteLength(fields[j])
                  => \A i \in Recorded : i > j => frame.sizes[i] = 0

\* a list that does not fit has been written: its second field is cut
\* short and its third, not empty, is recorded with length 0
C20_Witness ==
    /\ frame.pc = "written" /\ ~Fits
    /\ Len(frame.fields) = 3 /\ Len(frame.sizes) >= 3
    /\ frame.sizes[1] = ByteLength(frame.fields[1])
    /\ 0 < frame.sizes[2] /\ frame.sizes[2] < ByteLength(frame.fields[2])
    /\ ByteLength(frame.fields[3]) > 0 /\ frame.sizes[3] = 0

\* what the callback of an operation is called with when its exchange runs
\* on a slot of its own: the request is framed and unframed, the worker
\* frames its reply, the listener unframes it
Undisturbed(input) ==
    LET region  == Zeros(RegionSize)
        sizes   == Zeros(SizesLength)
        request == writeBuffer(region, sizes, RequestElements(input))
        reply   == WorkerReply(readBuffer(request.buffer, request.sizes, RequestFields))
        written == writeBuffer(region, sizes, reply.elements)
    IN  HandlerResult(input.kind, reply.status,
                      readBuffer(written.buffer, written.sizes,
                                 IF reply.status = 0 THEN 1 ELSE ErrorFields))

\* C13: the reply of a worker runs the listener of the one operation that is
\* in flight on that worker and changes no other operation; that operation's
\* callback has not been called before, and when it is called, it is called
\* with the outcome computed from the operation's own fields.
C13_NoCrossTalk ==
    [][\A w \in WorkerIds :
          DeliveryStep(w) =>
            LET o == listeners[w] IN
            /\ ops[o].pc = "sent" /\ ops[o].worker = w
            /\ \A p \in OpIds : p # o => ops'[p] = ops[p]
            /\ ops[o].callbacks = 0
            /\ ops'[o].callbacks = 1 => ops'[o].args = Undisturbed(ops[o].input).args]_vars

\* the elements a list of fields is read back as when it fits its region
AsRead(elements) ==
    [j \in 1..Len(elements) |->
        IF Serializable(elements[j]) /\ elements[j].b # <<>>
        THEN Buf(elements[j].b) ELSE Undefined]
\* the request now framed in the request region of worker w
RequestOf(w) == readBuffer(shared[w].request, shared[w].requestSizes, RequestFields)

\* C14: while a request notify is on its way to a worker, the operation's
\* listener is installed on that worker and the worker's request region
\* holds the operation's framed request; while a status is on its way back,
\* the worker's reply region holds the framed reply to that request and the
\* status is the one of that reply; a worker handles a request only with a
\* notify received, and a listener reads the reply only in the step that
\* delivers the status.
C14_WriteBeforeNotify ==
    /\ [](\A w \in WorkerIds :
            /\ thread[w].inbox + Len(thread[w].outbox) <= 1
            /\ (thread[w].inbox > 0 \/ thread[w].outbox # <<>>) =>
                 /\ listeners[w] # 0
                 /\ ops[listeners[w]].pc = "sent"
                 /\ ops[listeners[w]].worker = w
                 /\ RequestOf(w) = AsRead(RequestElements(ops[listeners[w]].input))
            /\ thread[w].outbox # <<>> =>
                 LET reply == WorkerReply(RequestOf(w)) IN
                 /\ Head(thread[w].outbox) = reply.status
                 /\ readBuffer(shared[w].reply, shared[w].replySizes,
                               Len(reply.elements)) = AsRead(reply.elements))
    /\ [][/\ \A w \in WorkerIds :
               /\ <<shared'[w].reply, shared'[w].replySizes>>
                      # <<shared[w].reply, shared[w].replySizes>>
                    => (RequestStep(w) \/ thread[w].pc = "none")
               /\ <<shared'[w].request, shared'[w].requestSizes>>
                      # <<shared[w].request, shared[w].requestSizes>>
                    => (thread'[w].inbox = thread[w].inbox + 1 \/ thread[w].pc = "none")
               /\ thread'[w].outbox # thread[w].outbox
                    => (RequestStep(w) \/ DeliveryStep(w))
          /\ \A o \in OpIds : ReplyStep(o) => DeliveryStep(ops[o].worker)]_vars

\* a request notify is on its way to one worker while the status of another
\* worker is on its way back
C14_Witness ==
    \E w1, w2 \in WorkerIds : thread[w1].inbox > 0 /\ thread[w2].outbox # <<>>

\* C15: a worker posts one status for each notify it handles and nothing
\* otherwise: 0 with one field framed when the operation returned, a negative
\* value with six fields framed when it threw; the listener calls back with
\* an error exactly when the status is negative, built from six unframed
\* fields, and with a result built from one unframed field otherwise.
C15_OneReplyPerRequest ==
    [][\A w \in WorkerIds :
          /\ thread'[w].outbox # thread[w].outbox
               => (RequestStep(w) \/ DeliveryStep(w))
          /\ RequestStep(w) =>
               LET threw  == PerformRequest(RequestOf(w)).threw
                   count  == IF threw THEN ErrorFields ELSE 1
                   status == thread'[w].outbox[Len(thread'[w].outbox)]
               IN  /\ thread'[w].outbox = Append(thread[w].outbox, status)
                   /\ threw <=> status < 0
                   /\ ~threw <=> status = 0
                   /\ \A j \in 1..SizesLength :
                        j > count => shared'[w].replySizes[j] = shared[w].replySizes[j]
          /\ DeliveryStep(w) =>
               LET o      == listeners[w]
                   status == Head(thread[w].outbox)
                   sizes  == shared[repliesSizesArray[ops[o].workerIndex]].replySizes
                   region == shared[ops[o].replyBuffer].reply
                   called == ops'[o].callbacks = ops[o].callbacks + 1
               IN  /\ status < 0 <=> (called /\ ops'[o].args.error.kind # "none")
                   /\ status < 0 =>
                        ops'[o].args.error = deserializeWorkerError(
                            ErrorStrings(readBuffer(region, sizes, ErrorFields)))
                   /\ (status >= 0 /\ called) =>
                        ops'[o].args = HandlerResult(ops[o].input.kind, status,
                                                     readBuffer(region, sizes, 1)).args]_vars

\* one operation has been called back with a worker's error, another with
\* a worker's result
C15_Witness ==
    \E o, p \in OpIds :
        /\ ops[o].pc = "done" /\ ops[o].via = "worker" /\ ops[o].args.error.kind # "none"
        /\ ops[p].pc = "done" /\ ops[p].via = "worker" /\ ops[p].args.error.kind = "none"

\* the attempts argument of the acquisition attempt operation o is about to make
AttemptsLeft(o) == IF ops[o].pc = "new" THEN DefaultAttempts ELSE ops[o].attempts

\* C16: a retry timer is scheduled only with attempts left and takes one of
\* them, so that with 3 attempts an operation schedules at most 3 timers and
\* makes at most 4 acquisition attempts; an attempt examines the queue at
\* most once (one shift); the attempts end once, in the one call of the
\* operation's callback; an attempt made with the pool stopped falls back
\* and leaves the queue alone.
C16_BoundedRetry ==
    /\ [](\A o \in OpIds :
            /\ ops[o].callbacks <= 1
            /\ ops[o].pc = "timer" => ops[o].attempts \in 0..(DefaultAttempts - 1))
    /\ [][\A o \in OpIds :
            /\ AttemptStep(o) =>
                 /\ availableWorkers' = availableWorkers
                      \/ (availableWorkers # <<>> /\ availableWorkers' = Tail(availableWorkers))
                 /\ ops'[o].pc = "timer" =>
                      /\ AttemptsLeft(o) > 0
                      /\ ops'[o].attempts = AttemptsLeft(o) - 1
                      /\ ops'[o].callbacks = ops[o].callbacks
                 /\ (ops[o].pc = "timer" /\ AttemptsLeft(o) = 0) => ops'[o].pc # "timer"
                 /\ Len(workers) = 0 =>
                      /\ ops'[o].pc = "done" /\ ops'[o].via = "sync"
                      /\ ops'[o].callbacks = 1
                      /\ availableWorkers' = availableWorkers
            /\ ops[o].pc \notin {"new", "timer"} => ops'[o].pc \notin {"new", "timer"}]_vars

\* the pool has been stopped while an operation waits for its third retry
\* timer
C16_Witness ==
    /\ lastCall.name = "stopWorkers" /\ Len(workers) = 0
    /\ \E o \in OpIds : ops[o].pc = "timer" /\ ops[o].attempts = 0

\* C17: whenever the pool runs, every index 0..cores-1 is either once in the
\* availability queue or held by one operation in flight, never both, and
\* the queue holds nothing else.
C17_SlotConservation ==
    Len(workers) = Cores =>
        /\ \A k \in Indices :
             Count(availableWorkers, k) + Cardinality({o \in OpIds : InFlight(o, k)}) = 1
        /\ \A j \in 1..Len(availableWorkers) : availableWorkers[j] \in Indices

\* C18: a stopWorkers call that is given a callback leaves the callback
\* either called or handed to a promise that is still to settle, whether the
\* pool runs or not; the callback of a stop is called at most once, and once
\* when the promise has settled; a call without callback on a running pool
\* leaves a promise that settles only after the pool's workers were
\* terminated.
C18_StopCallsBack ==
    /\ [][(LifecycleCall("stopWorkers") /\ lastCall'.callback)
          => \E g \in Gens :
                /\ stopped'[g] # stopped[g]
                /\ stopped'[g].callback
                /\ stopped'[g].pc = "terminating" \/ stopped'[g].called = 1]_vars
    /\ [][(LifecycleCall("stopWorkers") /\ ~lastCall'.callback /\ Len(workers) # 0)
          => stopped'[main.gen] = [pc |-> "terminating", callback |-> FALSE, called |-> 0]]_vars
    /\ [](\A g \in Gens :
            /\ stopped[g].called <= 1
            /\ (stopped[g].pc = "settled" /\ stopped[g].callback) => stopped[g].called = 1
            /\ stopped[g].pc = "settled" =>
                 \A w \in WorkerIds : w.gen = g => thread[w].pc = "terminated")

\* worker w is posted a request
PostStep(w) == thread'[w].inbox > thread[w].inbox

\* C19: a request is posted only to a worker of the pool that runs, a worker
\* that was spawned and not terminated and whose pool no stopWorkers call
\* has reached; the request is written to that worker's own region and to no
\* other, by the one operation that then listens on the worker; no attempt
\* throws for want of a Worker object or a region; an attempt made with the
\* pool stopped calls back from the synchronous path and posts and writes
\* nothing.
C19_NoRequestToStoppedWorker ==
    [][/\ \A w \in WorkerIds :
            PostStep(w) =>
               /\ InPool(w)
               /\ Len(workers) = Cores
               /\ w.gen = main.gen
               /\ thread[w].pc \notin {"none", "terminated"}
               /\ stopped[w.gen].pc = "none"
               /\ thread'[w].inbox = thread[w].inbox + 1
               /\ requestsSharedBuffers[w.index] = w
               /\ requestsSizesArray[w.index] = w
               /\ \A v \in WorkerIds \ {w} : shared'[v] = shared[v] /\ thread'[v] = thread[v]
               /\ \E o \in OpIds :
                     /\ AttemptStep(o)
                     /\ ops'[o].pc = "sent" /\ ops'[o].worker = w
                     /\ ops'[o].workerIndex = w.index
                     /\ listeners'[w] = o
       /\ \A o \in OpIds :
            /\ AttemptStep(o) => ops'[o].pc # "threw"
            /\ (AttemptStep(o) /\ ops'[o].pc = "sent") => PostStep(ops'[o].worker)
            /\ (AttemptStep(o) /\ Len(workers) = 0) =>
                 /\ ops'[o].pc = "done" /\ ops'[o].via = "sync"
                 /\ ops'[o].callbacks = 1
                 /\ thread' = thread /\ shared' = shared /\ listeners' = listeners]_vars

\* the first operation was sent to a worker of the second pool, spawned after
\* the first pool was stopped; the second pool was stopped in its turn and
\* the second operation then fell back
C19_Witness ==
    /\ ops[1].via = "worker" /\ ops[1].worker.gen = 2
    /\ stopped[1].pc # "none" /\ stopped[2].pc # "none"
    /\ Len(workers) = 0
    /\ ops[2].pc = "done" /\ ops[2].via = "sync"

====
